---- MODULE Spec2Model ----
(***************************************************************************)
(* DSS Crypto Virtual Lab: the DSA core (utils/crypto.ts, utils/dss.ts)    *)
(* and the EdgeCases flows that compose its operations.                    *)
(*                                                                         *)
(* bigint values are TLA+ integers; parameters are toy sized so that every *)
(* product stays far below 2^31.  A nullable value (bigint | null, or an   *)
(* optional argument) is a sequence: <<>> for null / undefined, <<v>> for  *)
(* the value v.  A string is the sequence of its UTF-16 code units; a hex  *)
(* string is the sequence of its digit values 0..15.                       *)
(***************************************************************************)
EXTENDS Integers, Sequences, FiniteSets, TLC

VARIABLES
  sg,    \* the execution of DSS.sign in progress: its arguments and locals
  flow,  \* the caller's position
  ec,    \* EdgeCases.demonstrateKReuse: its messages, nonce and first result
  vr,    \* the last DSS.verify call: arguments and VerificationResult
  rc,    \* the last recoverPrivateKeyFromReusedK call: arguments and result
  mc,    \* the last modPow / modInverse call: arguments and result
  ip,    \* the execution of isPrime in progress: its argument and locals
  gp,    \* the execution of generatePrime in progress
  pg,    \* the execution of DSS.generateParameters in progress
  kg,    \* the last DSS.generateKeyPair call: arguments and result
  ui,    \* the last form submission: the strings entered and what it called
  app    \* App's parameters and keyPair, and the generateKeys runs in flight

vars == <<sg, flow, ec, vr, rc, mc, ip, gp, pg, kg, ui, app>>

-----------------------------------------------------------------------------
(* Bounds of the model                                                     *)

\* longest message, in characters
MaxMsgLen == 2
\* a fixed nonce is drawn from -NonceBelow .. q + NonceAbove
NonceBelow == 1
NonceAbove == 1
\* r and s handed to verify are drawn from -SigBelow .. q + SigAbove
SigBelow == 1
SigAbove == 1
\* loop iterations of sign that the iteration counter tells apart
MaxIters == 2
\* arguments of the modPow / modInverse calls
MaxBase == 9
MaxExponent == 9
MaxModulus == 9
MaxA == 20
\* largest argument of an isPrime call
MaxPrimeN == 30
\* largest bitLength of a generatePrime call
MaxBits == 4
\* longest string typed into a form field
MaxInputLen == 2
\* most generateKeys runs in flight at once
MaxRuns == 2
\* bit length of q in generateParameters (the code asks generatePrime for 16
\* bits; the thresholds 2^8 and 2^16 of the code scale with it)
ParamQBits == 3
\* number of multipliers k in generateParameters (the code draws from 100)
ParamKSpan == 11

-----------------------------------------------------------------------------
(* bigint arithmetic of the language                                       *)

Null == <<>>
Some(v) == <<v>>

Abs(n) == IF n < 0 THEN -n ELSE n

\* bigint `/`: the quotient truncated toward zero (b # 0)
JsDiv(a, b) ==
  IF (a >= 0) = (b > 0) THEN Abs(a) \div Abs(b) ELSE -(Abs(a) \div Abs(b))

\* bigint `%`: the remainder takes the sign of the dividend (b # 0)
JsMod(a, b) == a - b * JsDiv(a, b)

\* BigInt(Math.floor(Math.random() * Number(n))), Math.random() in [0, 1)
FloorRandom(n) == IF n > 0 THEN 0 .. (n - 1) ELSE n .. 0

-----------------------------------------------------------------------------
(* utils/crypto.ts                                                         *)

\* faulty variant: the base is squared only on the iterations that multiply
ModPowBase_SkipSquare(base, exponent, modulus) ==
  IF exponent % 2 = 1 THEN JsMod(base * base, modulus) ELSE base

\* base = (base * base) % modulus
ModPowBase(base, exponent, modulus) == JsMod(base * base, modulus)

\* faulty variant: the result is multiplied on every iteration
ModPowResult_Always(result, base, exponent, modulus) ==
  JsMod(result * base, modulus)

\* if (exponent % 2n === 1n) result = (result * base) % modulus
ModPowResult(result, base, exponent, modulus) ==
  IF JsMod(exponent, 2) = 1 THEN JsMod(result * base, modulus) ELSE result

RECURSIVE ModPowLoop(_, _, _, _)
ModPowLoop(result, base, exponent, modulus) ==
  IF exponent > 0
    THEN ModPowLoop(ModPowResult(result, base, exponent, modulus),
                    ModPowBase(base, exponent, modulus),
                    exponent \div 2,
                    modulus)
    ELSE result

modPow(base, exponent, modulus) ==
  ModPowLoop(1, JsMod(base, modulus), exponent, modulus)

\* faulty variant: x1 is returned as the loop left it
ModInverseNormalize_Raw(x1, m0) == x1

\* if (x1 < 0n) x1 += m0
ModInverseNormalize(x1, m0) == IF x1 < 0 THEN x1 + m0 ELSE x1

\* The while loop of modInverse.  `a / m` with m = 0 raises a RangeError
\* (division by zero), which leaves the function without a value.
RECURSIVE ModInverseLoop(_, _, _, _, _)
ModInverseLoop(a, m, x0, x1, m0) ==
  IF a > 1
    THEN IF m = 0
           THEN [thrown |-> TRUE, value |-> 0]
           ELSE ModInverseLoop(m, JsMod(a, m), x1 - JsDiv(a, m) * x0, x0, m0)
    ELSE [thrown |-> FALSE, value |-> ModInverseNormalize(x1, m0)]

\* [thrown |-> TRUE] is the call ending in the RangeError
modInverse(a, m) ==
  IF m = 1 THEN [thrown |-> FALSE, value |-> 0]
           ELSE ModInverseLoop(a, m, 0, 1, m)

\* 16^n mod q
RECURSIVE Pow16Mod(_, _)
Pow16Mod(n, q) ==
  IF n = 0 THEN 1 % q
  ELSE IF n % 2 = 0
         THEN LET h == Pow16Mod(n \div 2, q) IN (h * h) % q
         ELSE (16 * Pow16Mod(n - 1, q)) % q

\* the value of the digits hex[lo .. hi], mod q
RECURSIVE HexMod(_, _, _, _)
HexMod(hex, lo, hi, q) ==
  IF lo = hi THEN hex[lo] % q
  ELSE LET mid == (lo + hi) \div 2
       IN  (HexMod(hex, lo, mid, q) * Pow16Mod(hi - mid, q)
              + HexMod(hex, mid + 1, hi, q)) % q

\* hexToBigInt(hex) % q, for a non-empty hex string and q > 0: the value of
\* the hex digits, reduced mod q
hexToBigIntMod(hex, q) == HexMod(hex, 1, Len(hex), q)

Chars == {65, 66}

RECURSIVE Strings(_)
Strings(n) ==
  IF n = 0 THEN {<<>>}
  ELSE LET S == Strings(n - 1)
       IN  S \cup {Append(m, c) : m \in {t \in S : Len(t) = n - 1}, c \in Chars}

Messages == Strings(MaxMsgLen)

\* sha256(message): the SHA-256 digest of the UTF-8 bytes as 64 hex digits,
\* tabulated for the strings over Chars of length at most 3
sha256(message) ==
  CASE
     message = <<>> ->
       \* e3b0c44298fc1c149afbf4c8996fb92427ae41e4649b934ca495991b7852b855
       <<14,3,11,0,12,4,4,2,9,8,15,12,1,12,1,4,9,10,15,11,15,4,12,8,9,9,6,15,11,9,2,4,2,7,10,14,4,1,14,4,6,4,9,11,9,3,4,12,10,4,9,5,9,9,1,11,7,8,5,2,11,8,5,5>>
  [] message = <<65>> ->
       \* 559aead08264d5795d3909718cdd05abd49572e84fe55590eef31a88a08fdffd
       <<5,5,9,10,14,10,13,0,8,2,6,4,13,5,7,9,5,13,3,9,0,9,7,1,8,12,13,13,0,5,10,11,13,4,9,5,7,2,14,8,4,15,14,5,5,5,9,0,14,14,15,3,1,10,8,8,10,0,8,15,13,15,15,13>>
  [] message = <<66>> ->
       \* df7e70e5021544f4834bbee64a9e3789febc4be81470df629cad6ddb03320a5c
       <<13,15,7,14,7,0,14,5,0,2,1,5,4,4,15,4,8,3,4,11,11,14,14,6,4,10,9,14,3,7,8,9,15,14,11,12,4,11,14,8,1,4,7,0,13,15,6,2,9,12,10,13,6,13,13,11,0,3,3,2,0,10,5,12>>
  [] message = <<65,65>> ->
       \* 58bb119c35513a451d24dc20ef0e9031ec85b35bfc919d263e7e5d9868909cb5
       <<5,8,11,11,1,1,9,12,3,5,5,1,3,10,4,5,1,13,2,4,13,12,2,0,14,15,0,14,9,0,3,1,14,12,8,5,11,3,5,11,15,12,9,1,9,13,2,6,3,14,7,14,5,13,9,8,6,8,9,0,9,12,11,5>>
  [] message = <<65,66>> ->
       \* 38164fbd17603d73f696b8b4d72664d735bb6a7c88577687fd2ae33fd6964153
       <<3,8,1,6,4,15,11,13,1,7,6,0,3,13,7,3,15,6,9,6,11,8,11,4,13,7,2,6,6,4,13,7,3,5,11,11,6,10,7,12,8,8,5,7,7,6,8,7,15,13,2,10,14,3,3,15,13,6,9,6,4,1,5,3>>
  [] message = <<66,65>> ->
       \* 296d71a7f66e75b751c597094536329dcf2cf484f83e475d91f7aea1ff4c9738
       <<2,9,6,13,7,1,10,7,15,6,6,14,7,5,11,7,5,1,12,5,9,7,0,9,4,5,3,6,3,2,9,13,12,15,2,12,15,4,8,4,15,8,3,14,4,7,5,13,9,1,15,7,10,14,10,1,15,15,4,12,9,7,3,8>>
  [] message = <<66,66>> ->
       \* fc686c314491e1f68bf1899fc54b2327353c44dd1ab4ed56538ef623edd1e866
       <<15,12,6,8,6,12,3,1,4,4,9,1,14,1,15,6,8,11,15,1,8,9,9,15,12,5,4,11,2,3,2,7,3,5,3,12,4,4,13,13,1,10,11,4,14,13,5,6,5,3,8,14,15,6,2,3,14,13,13,1,14,8,6,6>>
  [] message = <<65,65,65>> ->
       \* cb1ad2119d8fafb69566510ee712661f9f14b83385006ef92aec47f523a38358
       <<12,11,1,10,13,2,1,1,9,13,8,15,10,15,11,6,9,5,6,6,5,1,0,14,14,7,1,2,6,6,1,15,9,15,1,4,11,8,3,3,8,5,0,0,6,14,15,9,2,10,14,12,4,7,15,5,2,3,10,3,8,3,5,8>>
  [] message = <<65,65,66>> ->
       \* c50128cf99c06e860afbffcc4ddda158ddf9b1e7cce03899251cf667229066ab
       <<12,5,0,1,2,8,12,15,9,9,12,0,6,14,8,6,0,10,15,11,15,15,12,12,4,13,13,13,10,1,5,8,13,13,15,9,11,1,14,7,12,12,14,0,3,8,9,9,2,5,1,12,15,6,6,7,2,2,9,0,6,6,10,11>>
  [] message = <<65,66,65>> ->
       \* 3814c41d30b8d801812e0c0f7b6613d7e0a49aace2d9cdb5d2965bcc7249a324
       <<3,8,1,4,12,4,1,13,3,0,11,8,13,8,0,1,8,1,2,14,0,12,0,15,7,11,6,6,1,3,13,7,14,0,10,4,9,10,10,12,14,2,13,9,12,13,11,5,13,2,9,6,5,11,12,12,7,2,4,9,10,3,2,4>>
  [] message = <<65,66,66>> ->
       \* dafc290510d6daa0f1ff00a4ac55af5377d7af2a5962993bb72c23a861207fe0
       <<13,10,15,12,2,9,0,5,1,0,13,6,13,10,10,0,15,1,15,15,0,0,10,4,10,12,5,5,10,15,5,3,7,7,13,7,10,15,2,10,5,9,6,2,9,9,3,11,11,7,2,12,2,3,10,8,6,1,2,0,7,15,14,0>>
  [] message = <<66,65,65>> ->
       \* 37e0630b2746b95c2e205a6502308712434ee9c3435cf76fa5fb3beae634ec2a
       <<3,7,14,0,6,3,0,11,2,7,4,6,11,9,5,12,2,14,2,0,5,10,6,5,0,2,3,0,8,7,1,2,4,3,4,14,14,9,12,3,4,3,5,12,15,7,6,15,10,5,15,11,3,11,14,10,14,6,3,4,14,12,2,10>>
  [] message = <<66,65,66>> ->
       \* 5a421865e06163d285dbe857d63b445980f9bf6309c68ec558c62ff6315400ba
       <<5,10,4,2,1,8,6,5,14,0,6,1,6,3,13,2,8,5,13,11,14,8,5,7,13,6,3,11,4,4,5,9,8,0,15,9,11,15,6,3,0,9,12,6,8,14,12,5,5,8,12,6,2,15,15,6,3,1,5,4,0,0,11,10>>
  [] message = <<66,66,65>> ->
       \* 735ff2109a063ee1178abd3203153f92f8dc83a9ae7c93b7a77fce34372c65a8
       <<7,3,5,15,15,2,1,0,9,10,0,6,3,14,14,1,1,7,8,10,11,13,3,2,0,3,1,5,3,15,9,2,15,8,13,12,8,3,10,9,10,14,7,12,9,3,11,7,10,7,7,15,12,14,3,4,3,7,2,12,6,5,10,8>>
  [] message = <<66,66,66>> ->
       \* dcdb704109a454784b81229d2b05f368692e758bfa33cb61d04c1b93791b0273
       <<13,12,13,11,7,0,4,1,0,9,10,4,5,4,7,8,4,11,8,1,2,2,9,13,2,11,0,5,15,3,6,8,6,9,2,14,7,5,8,11,15,10,3,3,12,11,6,1,13,0,4,12,1,11,9,3,7,9,1,11,0,2,7,3>>


\* isPrime(n, k = 5): the number of Miller-Rabin rounds
IsPrimeRounds == 5

\* while (d % 2n === 0n) { d /= 2n; r++ }, from d = n - 1 > 0: the final d
RECURSIVE IsPrimeD(_)
IsPrimeD(d) == IF JsMod(d, 2) = 0 THEN IsPrimeD(JsDiv(d, 2)) ELSE d

\* the final r of the same loop
RECURSIVE IsPrimeR(_)
IsPrimeR(d) == IF JsMod(d, 2) = 0 THEN 1 + IsPrimeR(JsDiv(d, 2)) ELSE 0

\* const a = 2n + BigInt(Math.floor(Math.random() * Number(n - 4n)))
IsPrimeWitnesses(n) == {2 + w : w \in FloorRandom(n - 4)}

\* faulty variant: only x = 1 lets the round pass at once
MRFirstPass_OnlyOne(x, n) == x = 1

\* if (x === 1n || x === n - 1n) continue
MRFirstPass(x, n) == x = 1 \/ x = n - 1

\* the for (j ...) loop of a round and its composite flag
RECURSIVE MRSquaring(_, _, _, _)
MRSquaring(x, j, r, n) ==
  IF j < r - 1
    THEN LET x2 == modPow(x, 2, n)
         IN  IF x2 = n - 1 THEN FALSE ELSE MRSquaring(x2, j + 1, r, n)
    ELSE TRUE

\* one round with the witness a: TRUE when the round returns false
MRComposite(n, a, r, d) ==
  LET x == modPow(a, d, n)
  IN  IF MRFirstPass(x, n) THEN FALSE ELSE MRSquaring(x, 0, r, n)

\* isPrime up to its for loop (a = 0: no witness drawn yet)
IsPrimeEnter(n) ==
  IF n = 2 \/ n = 3
    THEN [pc |-> "returned", n |-> n, result |-> TRUE, i |-> 0, a |-> 0]
  ELSE IF n < 2 \/ JsMod(n, 2) = 0
    THEN [pc |-> "returned", n |-> n, result |-> FALSE, i |-> 0, a |-> 0]
  ELSE [pc |-> "rounds", n |-> n, r |-> IsPrimeR(n - 1), d |-> IsPrimeD(n - 1),
        i |-> 0, a |-> 0]

\* round i of the for loop with the witness a, and the return after the loop
IsPrimeRound(st, a) ==
  IF MRComposite(st.n, a, st.r, st.d)
    THEN [pc |-> "returned", n |-> st.n, result |-> FALSE, i |-> st.i, a |-> a]
  ELSE IF st.i + 1 < IsPrimeRounds
    THEN [st EXCEPT !.i = st.i + 1, !.a = a]
  ELSE [pc |-> "returned", n |-> st.n, result |-> TRUE, i |-> st.i, a |-> a]

\* the values isPrime(n) can return, over all draws of its witnesses
IsPrimeOutcomes(n) ==
  IF n = 2 \/ n = 3 THEN {TRUE}
  ELSE IF n < 2 \/ JsMod(n, 2) = 0 THEN {FALSE}
  ELSE LET W == IsPrimeWitnesses(n)
           C == {a \in W : MRComposite(n, a, IsPrimeR(n - 1), IsPrimeD(n - 1))}
       IN  (IF C # {} THEN {FALSE} ELSE {}) \cup (IF C # W THEN {TRUE} ELSE {})

\* const maxAttempts = 1000
GeneratePrimeMaxAttempts == 1000

\* Math.min(bitLength, 32)
ActualBitLength(bitLength) == IF bitLength < 32 THEN bitLength ELSE 32

\* candidate = min + BigInt(Math.floor(Math.random() * Number(max - min)));
\* if (candidate % 2n === 0n) candidate += 1n
GeneratePrimeCandidates(bitLength) ==
  LET min == 2 ^ (ActualBitLength(bitLength) - 1)
      max == 2 ^ ActualBitLength(bitLength) - 1
  IN  { IF JsMod(min + w, 2) = 0 THEN min + w + 1 ELSE min + w :
          w \in FloorRandom(max - min) }

\* return bitLength <= 16 ? 65537n : 1048583n
GeneratePrimeFallback(bitLength) == IF bitLength <= 16 THEN 65537 ELSE 1048583

\* generatePrime up to its loop
GeneratePrimeEnter(bitLength) ==
  [pc |-> "loop", bitLength |-> bitLength, attempts |-> 0, candidate |-> 0,
   exhausted |-> FALSE]

\* one iteration of the do ... while (!isPrime(candidate)) loop, drawing
\* candidate and with isPrime(candidate) returning accepted
GeneratePrimeIteration(st, candidate, accepted) ==
  IF st.attempts > GeneratePrimeMaxAttempts
    THEN [st EXCEPT !.pc = "returned", !.attempts = st.attempts + 1,
                    !.exhausted = TRUE,
                    !.candidate = GeneratePrimeFallback(st.bitLength)]
  ELSE IF accepted
    THEN [st EXCEPT !.pc = "returned", !.attempts = st.attempts + 1,
                    !.candidate = candidate]
  ELSE [st EXCEPT !.attempts = st.attempts + 1, !.candidate = candidate]

\* the values generatePrime(bitLength) can return
GeneratePrimeReturns(bitLength) ==
  LET C == GeneratePrimeCandidates(bitLength)
  IN  {c \in C : TRUE \in IsPrimeOutcomes(c)}
        \cup (IF \E c \in C : FALSE \in IsPrimeOutcomes(c)
                THEN {GeneratePrimeFallback(bitLength)} ELSE {})

-----------------------------------------------------------------------------
(* utils/dss.ts                                                            *)

\* Domain parameters: p and q prime, q divides p - 1, g of order q mod p.
\* <<13, 3, 3>> has g^1 mod p a multiple of q.
DomainParams ==
  { [p |-> 7,  q |-> 3,  g |-> 2],
    [p |-> 13, q |-> 3,  g |-> 3],
    [p |-> 11, q |-> 5,  g |-> 3],
    [p |-> 29, q |-> 7,  g |-> 16],
    [p |-> 23, q |-> 11, g |-> 4] }

\* const publicKey = modPow(g, privateKey, p), for a private key in (0, q)
KeyPairs(params) ==
  { [privateKey |-> x, publicKey |-> modPow(params.g, x, params.p)] :
      x \in 1 .. (params.q - 1) }

\* if (attempts++ > 100)
ParamMaxAttempts == 100

\* q = 1009n; // Known prime
ParamFallbackQ == 1009

\* while (q < 2n ** 8n), for a q of 16 bits
ParamQThreshold == 2 ^ (ParamQBits \div 2)

\* p < 2n ** 16n, for a q of 16 bits
ParamPThreshold == 2 ^ ParamQBits

\* q = generatePrime(16).  The exhaustion value 65537 of generatePrime is left
\* out: k * 65537 + 1 cannot be squared in the integers of the model checker.
ParamQChoices ==
  {q \in GeneratePrimeReturns(ParamQBits) : q < 2 ^ ParamQBits}

\* const k = 2n + BigInt(Math.floor(Math.random() * 100)); p = k * q + 1n
ParamP(k, q) == k * q + 1

ParamPChoices(q) == {ParamP(2 + w, q) : w \in FloorRandom(ParamKSpan)}

\* const h = 2n + BigInt(Math.floor(Math.random() * Number(p - 3n)))
ParamHChoices(p) == {2 + w : w \in FloorRandom(p - 3)}

\* const g = modPow(h, (p - 1n) / q, p)
ParamG_Identity(h, p, q) == h
ParamG(h, p, q) == modPow(h, JsDiv(p - 1, q), p)

\* generateParameters before its first statement
ParamsEnter ==
  [pc |-> "q", q |-> 0, generatedQ |-> 0, p |-> 0, attempts |-> 0, g |-> 0,
   exhausted |-> FALSE]

\* one iteration of do { q = generatePrime(16) } while (q < 2n ** 8n)
ParamsQIteration(st, q) ==
  IF q < ParamQThreshold
    THEN [st EXCEPT !.q = q, !.generatedQ = q]
    ELSE [st EXCEPT !.q = q, !.generatedQ = q, !.pc = "p"]

\* one iteration of the search for p, drawing p = k * q + 1 and with
\* isPrime(p) returning accepted; past the cap q and p are replaced
ParamsPIteration(st, p, accepted) ==
  IF st.attempts > ParamMaxAttempts
    THEN [st EXCEPT !.attempts = st.attempts + 1, !.exhausted = TRUE,
                    !.q = ParamFallbackQ, !.p = 2 * ParamFallbackQ + 1,
                    !.pc = "fallback"]
  ELSE IF ~accepted \/ p < ParamPThreshold
    THEN [st EXCEPT !.attempts = st.attempts + 1, !.p = p]
  ELSE [st EXCEPT !.attempts = st.attempts + 1, !.p = p, !.pc = "g"]

\* one test of while (!isPrime(p)) { p += 2n * q }, followed by break
ParamsFallbackIteration(st, accepted) ==
  IF accepted THEN [st EXCEPT !.pc = "g"]
  ELSE [st EXCEPT !.p = st.p + 2 * st.q]

\* g is computed from the h drawn and { p, q, g } is returned
ParamsReturn(st, h) ==
  [st EXCEPT !.g = ParamG(h, st.p, st.q), !.pc = "returned"]

\* const maxX = q > 1000n ? 1000n : q - 2n
KeyPairMaxX_Wide(q) == IF q > 1000 THEN 1000 ELSE q
KeyPairMaxX(q) == IF q > 1000 THEN 1000 ELSE q - 2

\* DSS.generateKeyPair(params) with the private key drawn as x
generateKeyPair(params, x) ==
  IF params.q <= 2
    THEN [thrown |-> TRUE, privateKey |-> Null, publicKey |-> Null]
    ELSE [thrown |-> FALSE, privateKey |-> Some(x),
          publicKey |-> Some(modPow(params.g, x, params.p))]

\* const privateKey = 1n + BigInt(Math.floor(Math.random() * Number(maxX)))
KeyPairXChoices(params) ==
  IF params.q <= 2 THEN {0}
  ELSE {1 + w : w \in FloorRandom(KeyPairMaxX(params.q))}

\* parameters handed to generateKeyPair: the domain parameters above, one
\* set with q > 1000 and one with q = 2
KeyGenParams ==
  DomainParams \cup { [p |-> 10091, q |-> 1009, g |-> 1024],
                      [p |-> 5, q |-> 2, g |-> 4] }

\* const hashBigInt = hexToBigInt(hashHex) % q   (sign and verify)
SignHash(message, q) == hexToBigIntMod(sha256(message), q)

\* if (!useRandomK && fixedK): undefined and 0n are falsy
UsesFixedK(useRandomK, fixedK) ==
  ~useRandomK /\ fixedK # Null /\ fixedK[1] # 0

\* the values one evaluation of "Generate k" can give
NonceChoices(useRandomK, fixedK, q) ==
  IF UsesFixedK(useRandomK, fixedK)
    THEN {fixedK[1]}
    ELSE {1 + d : d \in FloorRandom(q - 2)}

\* r = modPow(g, k, p) % q
SignR(g, k, p, q) == JsMod(modPow(g, k, p), q)

\* faulty variant: the digest is left out of s
SignS_NoHash(kInverse, hashBigInt, privateKey, r, q) ==
  JsMod(kInverse * (privateKey * r), q)

\* s = (kInverse * (hashBigInt + privateKey * r)) % q
SignS(kInverse, hashBigInt, privateKey, r, q) ==
  JsMod(kInverse * (hashBigInt + privateKey * r), q)

\* if (r === 0n) continue
SignRetryR(r) == r = 0

\* faulty variant: no retry on s
SignRetryS_Never(s) == FALSE

\* if (s === 0n) continue
SignRetryS(s) == s = 0

\* faulty variant: r = q and s = q pass the range check
VerifyOutOfRange_Inclusive(r, s, q) == r <= 0 \/ r > q \/ s <= 0 \/ s > q

\* if (r <= 0n || r >= q || s <= 0n || s >= q)
VerifyOutOfRange(r, s, q) == r <= 0 \/ r >= q \/ s <= 0 \/ s >= q

\* DSS.verify.  calls lists the digest, inverse and exponentiation calls the
\* execution evaluates; thrown is the promise rejecting with modInverse's
\* RangeError.
verify(message, signature, params, publicKey) ==
  LET p == params.p
      q == params.q
      g == params.g
      r == signature.r
      s == signature.s
  IN
  IF VerifyOutOfRange(r, s, q)
    THEN [thrown |-> FALSE,
          isValid |-> FALSE,
          steps |-> [w |-> 0, u1 |-> 0, u2 |-> 0, v |-> 0, r |-> r],
          message |-> "Invalid signature values (r or s out of range)",
          calls |-> <<>>]
    ELSE
      LET hashBigInt == SignHash(message, q)
          inv == modInverse(s, q)
      IN
      IF inv.thrown
        THEN [thrown |-> TRUE, calls |-> <<"sha256", "modInverse">>]
        ELSE
          LET w == inv.value
              u1 == JsMod(hashBigInt * w, q)
              u2 == JsMod(r * w, q)
              v == JsMod(JsMod(modPow(g, u1, p) * modPow(publicKey, u2, p), p), q)
          IN [thrown |-> FALSE,
              isValid |-> (v = r),
              steps |-> [w |-> w, u1 |-> u1, u2 |-> u2, v |-> v, r |-> r],
              message |-> IF v = r THEN "Signature is valid"
                                   ELSE "Signature is invalid",
              calls |-> <<"sha256", "modInverse", "modPow", "modPow">>]

\* Number.prototype.toString(16): the hex digits of n >= 0, without padding
RECURSIVE ToString16(_)
ToString16(n) ==
  IF n < 16 THEN <<n>> ELSE Append(ToString16(n \div 16), n % 16)

\* message.split('').map(c => c.charCodeAt(0).toString(16)).join('')
RECURSIVE CharCodeHex(_)
CharCodeHex(message) ==
  IF message = <<>> THEN <<>>
  ELSE ToString16(Head(message)) \o CharCodeHex(Tail(message))

\* hexToBigInt(CharCodeHex(message)) % q of recoverPrivateKeyFromReusedK;
\* BigInt('0x') raises a SyntaxError, so the empty message has no value
RecoverHash(message, q) ==
  IF message = <<>> THEN Null
  ELSE Some(hexToBigIntMod(CharCodeHex(message), q))

\* faulty variant: the difference is reduced without adding q first
RecoverNumerator_NoLift(hash1, hash2, q) == JsMod(hash1 - hash2, q)

\* const numerator = (hash1 - hash2 + q) % q
RecoverNumerator(hash1, hash2, q) == JsMod(hash1 - hash2 + q, q)

\* const denominator = (s1 - s2 + q) % q
RecoverDenominator(s1, s2, q) == JsMod(s1 - s2 + q, q)

\* if (r1 !== r2)
RecoverDifferentR_Never(r1, r2) == FALSE
RecoverDifferentR(r1, r2) == r1 # r2

RecoverNone(h1, h2, calls) ==
  [privateKey |-> Null, k |-> Null, hash1 |-> h1, hash2 |-> h2, calls |-> calls]

\* DSS.recoverPrivateKeyFromReusedK.  hash1 and hash2 are the digests the
\* execution computed (Null when it did not get that far); an exception
\* inside the try block ends in the catch clause.
recoverPrivateKeyFromReusedK(message1, signature1, message2, signature2, params) ==
  LET q == params.q
      r1 == signature1.r
      s1 == signature1.s
      r2 == signature2.r
      s2 == signature2.s
  IN
  IF RecoverDifferentR(r1, r2) THEN RecoverNone(Null, Null, <<>>)
  ELSE
    LET h1 == RecoverHash(message1, q)
        h2 == RecoverHash(message2, q)
    IN
    IF h1 = Null THEN RecoverNone(Null, Null, <<"hexToBigInt">>)
    ELSE IF h2 = Null THEN RecoverNone(h1, Null, <<"hexToBigInt", "hexToBigInt">>)
    ELSE
      LET hash1 == h1[1]
          hash2 == h2[1]
          numerator == RecoverNumerator(hash1, hash2, q)
          denominator == RecoverDenominator(s1, s2, q)
          invD == modInverse(denominator, q)
      IN
      IF invD.thrown
        THEN RecoverNone(h1, h2, <<"hexToBigInt", "hexToBigInt", "modInverse">>)
        ELSE
          LET k == JsMod(numerator * invD.value, q)
              invR == modInverse(r1, q)
          IN
          IF invR.thrown
            THEN RecoverNone(h1, h2,
                   <<"hexToBigInt", "hexToBigInt", "modInverse", "modInverse">>)
            ELSE
              [privateKey |->
                 Some(JsMod(JsMod(s1 * k - hash1 + q * q, q) * invR.value, q)),
               k |-> Some(k),
               hash1 |-> h1,
               hash2 |-> h2,
               calls |-> <<"hexToBigInt", "hexToBigInt", "modInverse", "modInverse">>]

-----------------------------------------------------------------------------
(* components: the forms and App                                           *)

\* characters typed into the r, s and k fields: ' ', '-', '1', 'a'
InputChars == {32, 45, 49, 97}

InputStrings ==
  UNION { [1 .. n -> InputChars] : n \in 0 .. MaxInputLen }

\* String.prototype.trim
RECURSIVE Trim(_)
Trim(str) ==
  IF str = <<>> THEN str
  ELSE IF Head(str) = 32 THEN Trim(Tail(str))
  ELSE IF str[Len(str)] = 32 THEN Trim(SubSeq(str, 1, Len(str) - 1))
  ELSE str

IsDigits(str) == str # <<>> /\ \A i \in 1 .. Len(str) : str[i] \in 48 .. 57

RECURSIVE DigitsValue(_)
DigitsValue(str) ==
  IF str = <<>> THEN 0
  ELSE 10 * DigitsValue(SubSeq(str, 1, Len(str) - 1)) + (str[Len(str)] - 48)

\* BigInt(string): white space is trimmed, the empty string is 0n, an
\* optional sign and decimal digits give the value, anything else throws a
\* SyntaxError
StringToBigInt(str) ==
  LET t == Trim(str) IN
  IF t = <<>> THEN [thrown |-> FALSE, value |-> 0]
  ELSE IF IsDigits(t) THEN [thrown |-> FALSE, value |-> DigitsValue(t)]
  ELSE IF Head(t) = 45 /\ IsDigits(Tail(t))
    THEN [thrown |-> FALSE, value |-> 0 - DigitsValue(Tail(t))]
  ELSE IF Head(t) = 43 /\ IsDigits(Tail(t))
    THEN [thrown |-> FALSE, value |-> DigitsValue(Tail(t))]
  ELSE [thrown |-> TRUE, value |-> 0]

\* the message in the form when it is submitted
UiMessage == <<65>>

\* a submission that ended with an error message or a logged error, before
\* any call of the DSS class
UiRejected(form, inputs, error) ==
  [pc |-> "done", form |-> form, inputs |-> inputs, outcome |-> "rejected",
   error |-> error, callee |-> "", args |-> <<>>, calls |-> <<>>]

\* a submission that called callee with the numbers args; calls are the
\* modPow / modInverse evaluations the first iteration of that call makes
UiCalled(form, inputs, callee, args, calls) ==
  [pc |-> "done", form |-> form, inputs |-> inputs, outcome |-> "called",
   error |-> "", callee |-> callee, args |-> args, calls |-> calls]

\* the arithmetic DSS.sign evaluates in its first iteration
SignFirstCalls(params, keyPair, useRandomK, fixedK) ==
  IF \E k \in NonceChoices(useRandomK, fixedK, params.q) :
       ~SignRetryR(SignR(params.g, k, params.p, params.q))
    THEN <<"modPow", "modInverse">>
    ELSE <<"modPow">>

\* Sign.signMessage with parameters and keyPair set and a message entered
signMessage(params, keyPair, useRandomK, fixedK) ==
  IF ~useRandomK /\ fixedK # <<>>
    THEN
      LET parsed == StringToBigInt(fixedK) IN
      IF parsed.thrown \/ parsed.value <= 0 \/ parsed.value >= params.q
        THEN UiRejected("Sign", <<fixedK>>, "Invalid fixed k value")
        ELSE UiCalled("Sign", <<fixedK>>, "DSS.sign", <<Some(parsed.value)>>,
                      SignFirstCalls(params, keyPair, useRandomK,
                                     Some(parsed.value)))
    ELSE UiCalled("Sign", <<fixedK>>, "DSS.sign", <<Null>>,
                  SignFirstCalls(params, keyPair, useRandomK, Null))

\* Verify.verifySignature with parameters and keyPair set and a message
\* entered
verifySignature(params, keyPair, rValue, sValue) ==
  IF Trim(rValue) = <<>> \/ Trim(sValue) = <<>>
    THEN UiRejected("Verify", <<rValue, sValue>>,
                    "Please enter message, r, and s values")
    ELSE
      LET r == StringToBigInt(rValue)
          s == StringToBigInt(sValue)
      IN
      IF r.thrown \/ s.thrown
        THEN UiRejected("Verify", <<rValue, sValue>>, "Invalid signature values")
        ELSE UiCalled("Verify", <<rValue, sValue>>, "DSS.verify",
                      <<Some(r.value), Some(s.value)>>,
                      verify(UiMessage, [r |-> r.value, s |-> s.value],
                             params, keyPair.publicKey).calls)

\* EdgeCases.demonstrateKReuse up to its first DSS.sign call
demonstrateKReuse(params, keyPair, fixedK) ==
  LET parsed == StringToBigInt(fixedK) IN
  IF parsed.thrown
    THEN UiRejected("EdgeCases", <<fixedK>>, "K-reuse demonstration failed:")
    ELSE UiCalled("EdgeCases", <<fixedK>>, "DSS.sign", <<Some(parsed.value)>>,
                  SignFirstCalls(params, keyPair, FALSE, Some(parsed.value)))

\* the parameters a generateKeys run obtains from DSS.generateParameters();
\* App and KeyGen only store them
AppParamsChoices == DomainParams

\* the sequence without its i-th element
RemoveAt(seq, i) == SubSeq(seq, 1, i - 1) \o SubSeq(seq, i + 1, Len(seq))

\* faulty variant: only the parameters are stored
HandleParametersGenerated_ParamsOnly(st, params, keys) ==
  [st EXCEPT !.parameters = Some(params)]

\* App.handleParametersGenerated: setParameters(params); setKeyPair(keys)
HandleParametersGenerated(st, params, keys) ==
  [st EXCEPT !.parameters = Some(params), !.keyPair = Some(keys)]

\* generateKeys up to its first await
GenerateKeysEnter(st) ==
  [st EXCEPT !.runs = Append(st.runs, [pc |-> "await1", params |-> Null])]

\* run i resumes after the first await: params = DSS.generateParameters(),
\* then the second await
GenerateKeysParams(st, i, params) ==
  [st EXCEPT !.runs[i] = [pc |-> "await2", params |-> Some(params)]]

\* run i resumes after the second await: keys = DSS.generateKeyPair(params)
\* with x drawn, then onParametersGenerated(params, keys); an exception ends
\* in the catch clause, which sets nothing
GenerateKeysFinish(st, i, x) ==
  LET params == st.runs[i].params[1]
      keys == generateKeyPair(params, x)
      left == [st EXCEPT !.runs = RemoveAt(st.runs, i)]
  IN  IF keys.thrown THEN left
      ELSE HandleParametersGenerated(
             left, params,
             [privateKey |-> keys.privateKey[1], publicKey |-> keys.publicKey[1]])

\* App after mounting: no parameters, no key pair, no generation running
AppInit ==
  [parameters |-> Null, keyPair |-> Null, runs |-> <<>>]

-----------------------------------------------------------------------------
(* The operations as steps                                                 *)

Min(a, b) == IF a < b THEN a ELSE b

\* the optional fixedK argument of a call with parameters params
FixedKArgs(params) ==
  {Null} \cup {Some(k) : k \in (0 - NonceBelow) .. (params.q + NonceAbove)}

Init ==
  /\ sg = [pc |-> "idle"]
  /\ flow = "none"
  /\ ec = [pc |-> "idle"]
  /\ vr = [called |-> FALSE]
  /\ rc = [called |-> FALSE]
  /\ mc = [called |-> FALSE]
  /\ ip = [pc |-> "idle"]
  /\ gp = [pc |-> "idle"]
  /\ pg = [pc |-> "idle"]
  /\ kg = [called |-> FALSE]
  /\ ui = [pc |-> "idle"]
  /\ app = AppInit

\* DSS.sign up to the loop: the digest is computed, k, r and s are unassigned
\* (0 stands for the unassigned local; iters counts the iterations done)
SignEnter(message, params, keyPair, useRandomK, fixedK) ==
  [pc |-> "loop",
   message |-> message,
   params |-> params,
   keyPair |-> keyPair,
   useRandomK |-> useRandomK,
   fixedK |-> fixedK,
   hashBigInt |-> SignHash(message, params.q),
   k |-> 0, r |-> 0, s |-> 0,
   iters |-> 0]

\* one iteration of the do ... while (true) loop with the nonce k, and the
\* return statement when the iteration breaks
SignIteration(st, k) ==
  LET p == st.params.p
      q == st.params.q
      g == st.params.g
      r == SignR(g, k, p, q)
      n == Min(st.iters + 1, MaxIters)
  IN
  IF SignRetryR(r)
    THEN [st EXCEPT !.k = k, !.r = r, !.iters = n]
    ELSE
      LET inv == modInverse(k, q) IN
      IF inv.thrown
        THEN [st EXCEPT !.pc = "thrown", !.k = k, !.r = r, !.iters = n]
        ELSE
          LET s == SignS(inv.value, st.hashBigInt, st.keyPair.privateKey, r, q) IN
          IF SignRetryS(s)
            THEN [st EXCEPT !.k = k, !.r = r, !.s = s, !.iters = n]
            ELSE [st EXCEPT !.pc = "returned", !.k = k, !.r = r, !.s = s,
                            !.iters = n]

\* the SigningResult of a returned execution
SigningResult(st) ==
  [signature |-> [r |-> st.r, s |-> st.s],
   hash |-> sha256(st.message),
   k |-> st.k,
   intermediateValues |->
     [hashBigInt |-> st.hashBigInt,
      kInverse |-> modInverse(st.k, st.params.q).value,
      r |-> st.r,
      s |-> st.s]]

\* a caller invokes DSS.sign(message, params, privateKey, useRandomK, fixedK)
CallSign ==
  /\ flow = "none"
  /\ \E params \in DomainParams, message \in Messages, useRandomK \in BOOLEAN :
       \E keyPair \in KeyPairs(params), fixedK \in FixedKArgs(params) :
         sg' = SignEnter(message, params, keyPair, useRandomK, fixedK)
  /\ flow' = "sign"
  /\ UNCHANGED <<ec, vr, rc, mc, ip, gp, pg, kg, ui, app>>

SignIter ==
  /\ sg.pc = "loop"
  /\ \E k \in NonceChoices(sg.useRandomK, sg.fixedK, sg.params.q) :
       sg' = SignIteration(sg, k)
  /\ UNCHANGED <<flow, ec, vr, rc, mc, ip, gp, pg, kg, ui, app>>

\* DSS.verify(message, result.signature, parameters, keyPair.publicKey) on
\* the result of the sign call, as demonstrateLargeMessage does
VerifySigned ==
  /\ flow = "sign"
  /\ sg.pc = "returned"
  /\ vr' = [called |-> TRUE,
            origin |-> "signed",
            message |-> sg.message,
            signature |-> SigningResult(sg).signature,
            params |-> sg.params,
            publicKey |-> sg.keyPair.publicKey,
            result |-> verify(sg.message, SigningResult(sg).signature,
                              sg.params, sg.keyPair.publicKey)]
  /\ flow' = "verified"
  /\ UNCHANGED <<sg, ec, rc, mc, ip, gp, pg, kg, ui, app>>

\* a caller invokes DSS.verify with a signature of its own
CallVerify ==
  /\ flow = "none"
  /\ \E params \in DomainParams, message \in Messages :
       \E keyPair \in KeyPairs(params),
          r \in (0 - SigBelow) .. (params.q + SigAbove),
          s \in (0 - SigBelow) .. (params.q + SigAbove) :
         vr' = [called |-> TRUE,
                origin |-> "call",
                message |-> message,
                signature |-> [r |-> r, s |-> s],
                params |-> params,
                publicKey |-> keyPair.publicKey,
                result |-> verify(message, [r |-> r, s |-> s], params,
                                  keyPair.publicKey)]
  /\ flow' = "verified"
  /\ UNCHANGED <<sg, ec, rc, mc, ip, gp, pg, kg, ui, app>>

\* EdgeCases.demonstrateKReuse: first sign call, with the nonce k
DemonstrateKReuse ==
  /\ flow = "none"
  /\ \E params \in DomainParams, message1 \in Messages, message2 \in Messages :
       \E keyPair \in KeyPairs(params),
          k \in (0 - NonceBelow) .. (params.q + NonceAbove) :
         /\ sg' = SignEnter(message1, params, keyPair, FALSE, Some(k))
         /\ ec' = [pc |-> "sign1", message1 |-> message1,
                   message2 |-> message2, k |-> k]
  /\ flow' = "kreuse"
  /\ UNCHANGED <<vr, rc, mc, ip, gp, pg, kg, ui, app>>

\* result1 is there: second sign call, same nonce
KReuseSecond ==
  /\ flow = "kreuse"
  /\ ec.pc = "sign1"
  /\ sg.pc = "returned"
  /\ ec' = [pc |-> "sign2", message1 |-> ec.message1, message2 |-> ec.message2,
            k |-> ec.k, result1 |-> SigningResult(sg)]
  /\ sg' = SignEnter(ec.message2, sg.params, sg.keyPair, FALSE, Some(ec.k))
  /\ UNCHANGED <<flow, vr, rc, mc, ip, gp, pg, kg, ui, app>>

\* result2 is there: recovery, and setResults
KReuseRecover ==
  /\ flow = "kreuse"
  /\ ec.pc = "sign2"
  /\ sg.pc = "returned"
  /\ rc' = [called |-> TRUE,
            origin |-> "kreuse",
            message1 |-> ec.message1,
            signature1 |-> ec.result1.signature,
            message2 |-> ec.message2,
            signature2 |-> SigningResult(sg).signature,
            params |-> sg.params,
            result |-> recoverPrivateKeyFromReusedK(
                         ec.message1, ec.result1.signature,
                         ec.message2, SigningResult(sg).signature, sg.params)]
  /\ ec' = [pc |-> "done", message1 |-> ec.message1, message2 |-> ec.message2,
            k |-> ec.k, result1 |-> ec.result1, result2 |-> SigningResult(sg),
            originalPrivateKey |-> sg.keyPair.privateKey]
  /\ UNCHANGED <<sg, flow, vr, mc, ip, gp, pg, kg, ui, app>>

\* a sign call rejected: the catch clause logs, no results are set
KReuseCatch ==
  /\ flow = "kreuse"
  /\ ec.pc \in {"sign1", "sign2"}
  /\ sg.pc = "thrown"
  /\ ec' = [ec EXCEPT !.pc = "failed"]
  /\ UNCHANGED <<sg, flow, vr, rc, mc, ip, gp, pg, kg, ui, app>>

Next ==
  \/ CallSign
  \/ SignIter
  \/ VerifySigned
  \/ CallVerify
  \/ DemonstrateKReuse
  \/ KReuseSecond
  \/ KReuseRecover
  \/ KReuseCatch

Spec == Init /\ [][Next]_vars

\* the six test cases of demonstrateInvalidSignature for the signature
\* (r, s), each with its verification
InvalidSignatureCases(message1, r, s, params, publicKey) ==
  LET testCases ==
        << [r |-> 0, s |-> s], [r |-> r, s |-> 0],
           [r |-> params.q, s |-> s], [r |-> r, s |-> params.q],
           [r |-> r + 1, s |-> s], [r |-> r, s |-> s + 1] >>
  IN  [i \in 1 .. 6 |->
        [r |-> testCases[i].r,
         s |-> testCases[i].s,
         verification |-> verify(message1, testCases[i], params, publicKey)]]

\* EdgeCases.demonstrateInvalidSignature: DSS.sign(message1, parameters,
\* keyPair.privateKey), with the default random nonce
DemonstrateInvalidSignature ==
  /\ flow = "none"
  /\ \E params \in DomainParams, message1 \in Messages :
       \E keyPair \in KeyPairs(params) :
         sg' = SignEnter(message1, params, keyPair, TRUE, Null)
  /\ ec' = [pc |-> "sign"]
  /\ flow' = "invalid-signatures"
  /\ UNCHANGED <<vr, rc, mc, ip, gp, pg, kg, ui, app>>

\* validSig is there: the six verifications, and setResults
InvalidSignatureVerify ==
  /\ flow = "invalid-signatures"
  /\ ec.pc = "sign"
  /\ sg.pc = "returned"
  /\ ec' = [pc |-> "done",
            validSignature |-> SigningResult(sg),
            testCases |-> InvalidSignatureCases(sg.message, sg.r, sg.s,
                                                sg.params, sg.keyPair.publicKey)]
  /\ UNCHANGED <<sg, flow, vr, rc, mc, ip, gp, pg, kg, ui, app>>

\* a caller invokes DSS.sign(message, params, privateKey)
CallSignDefault ==
  /\ flow = "none"
  /\ \E params \in DomainParams, message \in Messages :
       \E keyPair \in KeyPairs(params) :
         sg' = SignEnter(message, params, keyPair, TRUE, Null)
  /\ flow' = "sign-default"
  /\ UNCHANGED <<ec, vr, rc, mc, ip, gp, pg, kg, ui, app>>

\* DSS.verify of the returned signature against another message
VerifyOtherMessage ==
  /\ flow = "sign-default"
  /\ sg.pc = "returned"
  /\ \E message2 \in Messages \ {sg.message} :
       vr' = [called |-> TRUE,
              origin |-> "other-message",
              message |-> message2,
              signature |-> SigningResult(sg).signature,
              params |-> sg.params,
              publicKey |-> sg.keyPair.publicKey,
              result |-> verify(message2, SigningResult(sg).signature,
                                sg.params, sg.keyPair.publicKey)]
  /\ flow' = "verified"
  /\ UNCHANGED <<sg, ec, rc, mc, ip, gp, pg, kg, ui, app>>

\* DSS.verify of the signed message against another pair (r, s)
VerifyOtherSignature ==
  /\ flow = "sign-default"
  /\ sg.pc = "returned"
  /\ \E r \in (0 - SigBelow) .. (sg.params.q + SigAbove),
        s \in (0 - SigBelow) .. (sg.params.q + SigAbove) :
       /\ <<r, s>> # <<sg.r, sg.s>>
       /\ vr' = [called |-> TRUE,
                 origin |-> "other-signature",
                 message |-> sg.message,
                 signature |-> [r |-> r, s |-> s],
                 params |-> sg.params,
                 publicKey |-> sg.keyPair.publicKey,
                 result |-> verify(sg.message, [r |-> r, s |-> s],
                                   sg.params, sg.keyPair.publicKey)]
  /\ flow' = "verified"
  /\ UNCHANGED <<sg, ec, rc, mc, ip, gp, pg, kg, ui, app>>

NextTamper ==
  \/ DemonstrateInvalidSignature
  \/ InvalidSignatureVerify
  \/ CallSignDefault
  \/ SignIter
  \/ VerifyOtherMessage
  \/ VerifyOtherSignature

SpecTamper == Init /\ [][NextTamper]_vars

NextSign == CallSign \/ SignIter

\* DSS.sign alone; a call that is in its loop goes on to the next iteration
SpecSign == Init /\ [][NextSign]_vars /\ WF_vars(SignIter)

\* the user submits the Sign form
SubmitSign ==
  /\ flow = "none"
  /\ \E params \in DomainParams, useRandomK \in BOOLEAN, fixedK \in InputStrings :
       \E keyPair \in KeyPairs(params) :
         ui' = signMessage(params, keyPair, useRandomK, fixedK)
               @@ [params |-> params, useRandomK |-> useRandomK]
  /\ flow' = "submitted"
  /\ UNCHANGED <<sg, ec, vr, rc, mc, ip, gp, pg, kg, app>>

\* the user submits the Verify form
SubmitVerify ==
  /\ flow = "none"
  /\ \E params \in DomainParams, rValue \in InputStrings, sValue \in InputStrings :
       \E keyPair \in KeyPairs(params) :
         ui' = verifySignature(params, keyPair, rValue, sValue)
               @@ [params |-> params, useRandomK |-> FALSE]
  /\ flow' = "submitted"
  /\ UNCHANGED <<sg, ec, vr, rc, mc, ip, gp, pg, kg, app>>

\* the user starts the k-reuse demonstration of EdgeCases
SubmitKReuse ==
  /\ flow = "none"
  /\ \E params \in DomainParams, fixedK \in InputStrings :
       \E keyPair \in KeyPairs(params) :
         ui' = demonstrateKReuse(params, keyPair, fixedK)
               @@ [params |-> params, useRandomK |-> FALSE]
  /\ flow' = "submitted"
  /\ UNCHANGED <<sg, ec, vr, rc, mc, ip, gp, pg, kg, app>>

\* the user clicks Generate in KeyGen
StartGenerateKeys ==
  /\ Len(app.runs) < MaxRuns
  /\ app' = GenerateKeysEnter(app)
  /\ UNCHANGED <<sg, flow, ec, vr, rc, mc, ip, gp, pg, kg, ui>>

\* the first timer of a run fires
RunGenerateParameters ==
  /\ \E i \in 1 .. Len(app.runs) :
       /\ app.runs[i].pc = "await1"
       /\ \E params \in AppParamsChoices :
            app' = GenerateKeysParams(app, i, params)
  /\ UNCHANGED <<sg, flow, ec, vr, rc, mc, ip, gp, pg, kg, ui>>

\* the second timer of a run fires
RunGenerateKeyPair ==
  /\ \E i \in 1 .. Len(app.runs) :
       /\ app.runs[i].pc = "await2"
       /\ \E x \in KeyPairXChoices(app.runs[i].params[1]) :
            app' = GenerateKeysFinish(app, i, x)
  /\ UNCHANGED <<sg, flow, ec, vr, rc, mc, ip, gp, pg, kg, ui>>

NextApp == StartGenerateKeys \/ RunGenerateParameters \/ RunGenerateKeyPair

SpecApp == Init /\ [][NextApp]_vars

NextUI == SubmitSign \/ SubmitVerify \/ SubmitKReuse

SpecUI == Init /\ [][NextUI]_vars

\* a caller invokes recoverPrivateKeyFromReusedK on two signatures of its own
CallRecover ==
  /\ flow = "none"
  /\ \E params \in DomainParams, message1 \in Messages, message2 \in Messages :
       \E r1 \in 0 .. (params.q - 1), s1 \in 0 .. (params.q - 1),
          r2 \in 0 .. (params.q - 1), s2 \in 0 .. (params.q - 1) :
         rc' = [called |-> TRUE,
                origin |-> "call",
                message1 |-> message1,
                signature1 |-> [r |-> r1, s |-> s1],
                message2 |-> message2,
                signature2 |-> [r |-> r2, s |-> s2],
                params |-> params,
                result |-> recoverPrivateKeyFromReusedK(
                             message1, [r |-> r1, s |-> s1],
                             message2, [r |-> r2, s |-> s2], params)]
  /\ flow' = "recovered"
  /\ UNCHANGED <<sg, ec, vr, mc, ip, gp, pg, kg, ui, app>>

NextRecover == CallRecover

SpecRecover == Init /\ [][NextRecover]_vars

\* a caller invokes modPow(base, exponent, modulus)
CallModPow ==
  /\ flow = "none"
  /\ \E base \in 0 .. MaxBase, exponent \in 0 .. MaxExponent,
        modulus \in 1 .. MaxModulus :
       mc' = [called |-> TRUE, fn |-> "modPow",
              base |-> base, exponent |-> exponent, modulus |-> modulus,
              result |-> modPow(base, exponent, modulus)]
  /\ flow' = "computed"
  /\ UNCHANGED <<sg, ec, vr, rc, ip, gp, pg, kg, ui, app>>

\* a caller invokes modInverse(a, m)
CallModInverse ==
  /\ flow = "none"
  /\ \E a \in 0 .. MaxA, m \in 2 .. MaxModulus :
       mc' = [called |-> TRUE, fn |-> "modInverse",
              a |-> a, m |-> m,
              result |-> modInverse(a, m)]
  /\ flow' = "computed"
  /\ UNCHANGED <<sg, ec, vr, rc, ip, gp, pg, kg, ui, app>>

NextMath == CallModPow \/ CallModInverse

SpecMath == Init /\ [][NextMath]_vars

\* parameters handed to DSS.verify: the domain parameters above and one set
\* whose q = 4 is not a prime (5 has order 4 mod 13)
VerifyParams == DomainParams \cup { [p |-> 13, q |-> 4, g |-> 5] }

\* a caller invokes DSS.verify with parameters, a public key and a signature
\* of its own
CallVerifyAny ==
  /\ flow = "none"
  /\ \E params \in VerifyParams, message \in Messages :
       \E publicKey \in 0 .. (params.p - 1),
          r \in (0 - SigBelow) .. (params.q + SigAbove),
          s \in (0 - SigBelow) .. (params.q + SigAbove) :
         vr' = [called |-> TRUE,
                origin |-> "call",
                message |-> message,
                signature |-> [r |-> r, s |-> s],
                params |-> params,
                publicKey |-> publicKey,
                result |-> verify(message, [r |-> r, s |-> s], params,
                                  publicKey)]
  /\ flow' = "verified"
  /\ UNCHANGED <<sg, ec, rc, mc, ip, gp, pg, kg, ui, app>>

NextVerify == CallVerifyAny

SpecVerify == Init /\ [][NextVerify]_vars

\* a caller invokes isPrime(n)
CallIsPrime ==
  /\ flow = "none"
  /\ \E n \in (0 - 1) .. MaxPrimeN : ip' = IsPrimeEnter(n)
  /\ flow' = "isPrime"
  /\ UNCHANGED <<sg, ec, vr, rc, mc, gp, pg, kg, ui, app>>

IsPrimeStep ==
  /\ ip.pc = "rounds"
  /\ \E a \in IsPrimeWitnesses(ip.n) : ip' = IsPrimeRound(ip, a)
  /\ UNCHANGED <<sg, flow, ec, vr, rc, mc, gp, pg, kg, ui, app>>

\* a caller invokes generatePrime(bitLength)
CallGeneratePrime ==
  /\ flow = "none"
  /\ \E bitLength \in 1 .. MaxBits : gp' = GeneratePrimeEnter(bitLength)
  /\ flow' = "generatePrime"
  /\ UNCHANGED <<sg, ec, vr, rc, mc, ip, pg, kg, ui, app>>

GeneratePrimeStep ==
  /\ gp.pc = "loop"
  /\ \E candidate \in GeneratePrimeCandidates(gp.bitLength) :
       \E accepted \in IsPrimeOutcomes(candidate) :
         gp' = GeneratePrimeIteration(gp, candidate, accepted)
  /\ UNCHANGED <<sg, flow, ec, vr, rc, mc, ip, pg, kg, ui, app>>

NextPrime == CallIsPrime \/ IsPrimeStep \/ CallGeneratePrime \/ GeneratePrimeStep

SpecPrime == Init /\ [][NextPrime]_vars

\* a caller invokes DSS.generateParameters()
CallGenerateParameters ==
  /\ flow = "none"
  /\ pg' = ParamsEnter
  /\ flow' = "generateParameters"
  /\ UNCHANGED <<sg, ec, vr, rc, mc, ip, gp, kg, ui, app>>

ParamsDrawQ ==
  /\ pg.pc = "q"
  /\ \E q \in ParamQChoices : pg' = ParamsQIteration(pg, q)
  /\ UNCHANGED <<sg, flow, ec, vr, rc, mc, ip, gp, kg, ui, app>>

ParamsDrawP ==
  /\ pg.pc = "p"
  /\ \E p \in ParamPChoices(pg.q) :
       \E accepted \in IsPrimeOutcomes(p) :
         pg' = ParamsPIteration(pg, p, accepted)
  /\ UNCHANGED <<sg, flow, ec, vr, rc, mc, ip, gp, kg, ui, app>>

ParamsFallbackStep ==
  /\ pg.pc = "fallback"
  /\ \E accepted \in IsPrimeOutcomes(pg.p) :
       pg' = ParamsFallbackIteration(pg, accepted)
  /\ UNCHANGED <<sg, flow, ec, vr, rc, mc, ip, gp, kg, ui, app>>

ParamsDrawG ==
  /\ pg.pc = "g"
  /\ \E h \in ParamHChoices(pg.p) : pg' = ParamsReturn(pg, h)
  /\ UNCHANGED <<sg, flow, ec, vr, rc, mc, ip, gp, kg, ui, app>>

\* a caller invokes DSS.generateKeyPair(params)
CallGenerateKeyPair ==
  /\ flow = "none"
  /\ \E params \in KeyGenParams :
       \E x \in KeyPairXChoices(params) :
         kg' = [called |-> TRUE, params |-> params,
                result |-> generateKeyPair(params, x)]
  /\ flow' = "generateKeyPair"
  /\ UNCHANGED <<sg, ec, vr, rc, mc, ip, gp, pg, ui, app>>

NextParams ==
  \/ CallGenerateParameters
  \/ ParamsDrawQ
  \/ ParamsDrawP
  \/ ParamsFallbackStep
  \/ ParamsDrawG
  \/ CallGenerateKeyPair

SpecParams == Init /\ [][NextParams]_vars

-----------------------------------------------------------------------------
(* Properties                                                              *)

\* the sign execution used the caller's nonce
SgFixed == sg.pc # "idle" /\ UsesFixedK(sg.useRandomK, sg.fixedK)

\* C1: sign-then-verify round trip.  When sign returned a result, with a
\* random nonce or with a fixed nonce k in (0, q), verify on the same message,
\* the returned signature and the matching public key reports isValid = true.
C1_SignThenVerify ==
  (/\ vr.called
   /\ vr.origin = "signed"
   /\ (SgFixed => (0 < sg.k /\ sg.k < sg.params.q)))
  => (~vr.result.thrown /\ vr.result.isValid)

C1_Witness ==
  /\ vr.called
  /\ vr.origin = "signed"
  /\ SgFixed
  /\ 0 < sg.k /\ sg.k < sg.params.q
  /\ sg.params.q = 11
  /\ vr.result.isValid

\* C2: nonce-reuse recovery end to end.  When demonstrateKReuse signed two
\* distinct messages with the same explicit nonce k in (0, q), the recovered
\* private key is the signer's private key.  (Two signatures with the same s
\* carry no information about k; they are left out.)
C2_KReuseRecoversKey ==
  (/\ ec.pc = "done"
   /\ ec.message1 # ec.message2
   /\ 0 < ec.k /\ ec.k < sg.params.q
   /\ ec.result1.signature.s # ec.result2.signature.s)
  => rc.result.privateKey = Some(ec.originalPrivateKey)

\* C3: every signature sign returns has r and s in the open interval (0, q),
\* for random and for fixed nonces.
C3_SignatureWellFormed ==
  sg.pc = "returned" =>
    LET sig == SigningResult(sg).signature
    IN  /\ 0 < sig.r /\ sig.r < sg.params.q
        /\ 0 < sig.s /\ sig.s < sg.params.q

\* sign returned after an iteration that was retried
C3_Witness ==
  /\ sg.pc = "returned"
  /\ sg.iters >= 2
  /\ 0 < sg.s

\* C4: verify on r or s outside (0, q) reports isValid = false with
\* w = u1 = u2 = v = 0 and steps.r the supplied r, and evaluates no digest,
\* modular inverse or exponentiation.
C4_VerifyRangeRejection ==
  (/\ vr.called
   /\ \/ vr.signature.r <= 0 \/ vr.signature.r >= vr.params.q
      \/ vr.signature.s <= 0 \/ vr.signature.s >= vr.params.q)
  => /\ ~vr.result.thrown
     /\ ~vr.result.isValid
     /\ vr.result.steps =
          [w |-> 0, u1 |-> 0, u2 |-> 0, v |-> 0, r |-> vr.signature.r]
     /\ vr.result.calls = <<>>

C4_Witness ==
  /\ vr.called
  /\ 0 < vr.signature.r /\ vr.signature.r < vr.params.q
  /\ vr.signature.s = vr.params.q
  /\ ~vr.result.isValid
  /\ vr.result.calls = <<>>

\* C5: with a fixed nonce k in (0, q) whose r or s is 0, sign ends in an
\* explicit failure: after the degenerate iteration it is not back in the
\* loop with the same k.
C5_FixedNonceDegenerateFails ==
  (/\ SgFixed
   /\ sg.iters >= 1
   /\ 0 < sg.k /\ sg.k < sg.params.q
   /\ (sg.r = 0 \/ sg.s = 0))
  => sg.pc = "thrown"

\* C6: the digest recoverPrivateKeyFromReusedK computes for a message equals
\* the digest sign computed for it (hashBigInt), for both messages of
\* demonstrateKReuse.
C6_SingleDigest ==
  ec.pc = "done" =>
    /\ rc.result.hash1 = Some(ec.result1.intermediateValues.hashBigInt)
    /\ rc.result.hash2 = Some(ec.result2.intermediateValues.hashBigInt)

\* s = k^-1 (d + x r) mod q, with k^-1 the inverse of k mod q
IsDsaS(s, k, d, x, r, q) ==
  \E ki \in 1 .. (q - 1) : (ki * k) % q = 1 /\ s = (ki * (d + x * r)) % q

\* C7: if the two signatures share r, have s1 # s2 and satisfy
\* s_i = k^-1 (d_i + x r) mod q for the digests d_i that the recovery
\* computes, with 0 < k, x, r < q, the recovery returns k and x, both in [0, q).
C7_RecoveryFormula ==
  (/\ rc.called
   /\ rc.signature1.r = rc.signature2.r
   /\ rc.signature1.s # rc.signature2.s
   /\ 0 < rc.signature1.r /\ rc.signature1.r < rc.params.q
   /\ rc.result.hash1 # Null
   /\ rc.result.hash2 # Null)
  => \A k \in 1 .. (rc.params.q - 1), x \in 1 .. (rc.params.q - 1) :
       (/\ IsDsaS(rc.signature1.s, k, rc.result.hash1[1], x,
                  rc.signature1.r, rc.params.q)
        /\ IsDsaS(rc.signature2.s, k, rc.result.hash2[1], x,
                  rc.signature1.r, rc.params.q))
       => /\ rc.result.k = Some(k)
          /\ rc.result.privateKey = Some(x)

\* a recovery whose numerator hash1 - hash2 is negative before it is lifted
C7_Witness ==
  /\ rc.called
  /\ rc.signature1.r = rc.signature2.r
  /\ rc.signature1.s # rc.signature2.s
  /\ rc.params.q = 11
  /\ rc.result.hash1 # Null
  /\ rc.result.hash2 # Null
  /\ rc.result.hash1[1] < rc.result.hash2[1]
  /\ IsDsaS(rc.signature1.s, 3, rc.result.hash1[1], 5, rc.signature1.r, 11)
  /\ IsDsaS(rc.signature2.s, 3, rc.result.hash2[1], 5, rc.signature1.r, 11)
  /\ rc.result.k = Some(3)
  /\ rc.result.privateKey = Some(5)

RECURSIVE GCD(_, _)
GCD(a, b) == IF b = 0 THEN a ELSE GCD(b, a % b)

\* C8: modInverse(a, m) with gcd(a, m) # 1 returns no value: it ends in a
\* failure.
C8_ModInverseSignals ==
  (/\ mc.called
   /\ mc.fn = "modInverse"
   /\ GCD(mc.a, mc.m) # 1)
  => mc.result.thrown

\* C9: modInverse(a, m) with a >= 1, m > 1 and gcd(a, m) = 1 returns x with
\* 0 <= x < m and (a * x) mod m = 1, also for a >= m.
C9_ModInverseCorrect ==
  (/\ mc.called
   /\ mc.fn = "modInverse"
   /\ mc.a >= 1
   /\ GCD(mc.a, mc.m) = 1)
  => /\ ~mc.result.thrown
     /\ 0 <= mc.result.value /\ mc.result.value < mc.m
     /\ (mc.a * mc.result.value) % mc.m = 1

\* a call with a >= m whose inverse the final normalisation lifts
C9_Witness ==
  /\ mc.called
  /\ mc.fn = "modInverse"
  /\ mc.a > mc.m
  /\ GCD(mc.a, mc.m) = 1
  /\ mc.result.value > 1
  /\ (mc.a * (mc.result.value - mc.m)) % mc.m = 1
  /\ (mc.a * mc.result.value) % mc.m = 1

\* base^exponent mod modulus, by exponent multiplications
RECURSIVE PowerMod(_, _, _)
PowerMod(base, exponent, modulus) ==
  IF exponent = 0 THEN 1 % modulus
  ELSE (base * PowerMod(base, exponent - 1, modulus)) % modulus

\* C10 as stated: for base >= 0, exponent >= 0 and modulus > 0, modPow returns
\* base^exponent mod modulus, and 1 for exponent = 0.
C10_ModPowAsStated ==
  (mc.called /\ mc.fn = "modPow")
  => /\ mc.result = PowerMod(mc.base, mc.exponent, mc.modulus)
     /\ (mc.exponent = 0 => mc.result = 1)

\* C10 amended: modPow returns base^exponent mod modulus whenever modulus > 1
\* or exponent > 0, and 1 for exponent = 0 (for modulus = 1 too, where
\* base^0 mod 1 is 0).
C10_ModPowCorrect ==
  (mc.called /\ mc.fn = "modPow")
  => /\ (mc.modulus > 1 \/ mc.exponent > 0)
          => mc.result = PowerMod(mc.base, mc.exponent, mc.modulus)
     /\ (mc.exponent = 0 => mc.result = 1)

C10_Witness ==
  /\ mc.called
  /\ mc.fn = "modPow"
  /\ mc.base = 4 /\ mc.exponent = 6 /\ mc.modulus = 9
  /\ mc.result = 1

\* n is prime, by trial division
TrialPrime(n) == n >= 2 /\ \A t \in 2 .. (n - 1) : n % t # 0

\* a proves n composite: with n - 1 = t * d, t a power of two and d odd,
\* a^d # 1 and a^(s d) # -1 (mod n) for every power of two s < t
ProvesComposite(a, n) ==
  \E t \in 1 .. n, d \in 1 .. n :
    /\ d % 2 = 1
    /\ n - 1 = t * d
    /\ \A o \in 2 .. t : t % o = 0 => o % 2 = 0
    /\ PowerMod(a, d, n) # 1
    /\ \A s \in 1 .. t : (t % s = 0 /\ s < t) => PowerMod(a, s * d, n) # n - 1

\* C11: isPrime against trial division.  It returns true for every prime n
\* (2 and 3 included), false for n < 2 and for even n > 2; every witness it
\* draws lies in [2, n - 2]; and for an odd composite n a drawn witness that
\* proves compositeness makes it return false.
C11_IsPrimeTrialDivision ==
  ip.pc # "idle" =>
    /\ (ip.pc = "returned" /\ TrialPrime(ip.n)) => ip.result
    /\ (ip.n < 2 \/ (ip.n > 2 /\ ip.n % 2 = 0))
         => (ip.pc = "returned" /\ ~ip.result)
    /\ ip.a # 0 => (2 <= ip.a /\ ip.a <= ip.n - 2)
    /\ (ip.a # 0 /\ ~TrialPrime(ip.n) /\ ProvesComposite(ip.a, ip.n))
         => (ip.pc = "returned" /\ ~ip.result)

\* 25 rejected in a later round, after a witness that did not prove it
C11_Witness ==
  /\ ip.pc = "returned"
  /\ ip.n = 25
  /\ ip.i >= 1
  /\ ProvesComposite(ip.a, ip.n)
  /\ ~ip.result

\* C12: when generatePrime has used up its attempts without an accepted
\* candidate, it ends in an explicit failure and returns no value.
C12_ExhaustionFails ==
  (gp.pc # "idle" /\ gp.exhausted) => gp.pc = "failed"

\* base^exponent mod modulus, by halving the exponent
RECURSIVE PowerModSq(_, _, _)
PowerModSq(base, exponent, modulus) ==
  IF exponent = 0 THEN 1 % modulus
  ELSE IF exponent % 2 = 0
    THEN LET half == PowerModSq(base, exponent \div 2, modulus)
         IN  (half * half) % modulus
  ELSE ((base % modulus) * PowerModSq(base, exponent - 1, modulus)) % modulus

\* C13: when the search for p runs past its attempt cap, generateParameters
\* fails; q stays the q generated first and no further search is made.
C13_ParamsExhaustionFails ==
  (pg.pc # "idle" /\ pg.exhausted)
  => (pg.pc = "failed" /\ pg.q = pg.generatedQ)

\* the multiplicative order of g mod p is exactly q
HasOrder(g, q, p) ==
  /\ modPow(g, q, p) = 1
  /\ \A e \in 1 .. (q - 1) : modPow(g, e, p) # 1

\* C14: every returned (p, q, g) has 1 < g < p and g of order exactly q.
C14_GeneratorNonTrivial ==
  pg.pc = "returned"
  => (1 < pg.g /\ pg.g < pg.p /\ HasOrder(pg.g, pg.q, pg.p))

\* some draw of witnesses makes isPrime(n) return true
IsPrimeCanAccept(n) ==
  \/ n = 2 \/ n = 3
  \/ /\ n > 3
     /\ n % 2 = 1
     /\ \E a \in 2 .. (n - 3) :
          ~MRComposite(n, a, IsPrimeR(n - 1), IsPrimeD(n - 1))

\* C15 as stated: every returned (p, q, g) has q dividing p - 1, p and q
\* accepted by isPrime, and g^q mod p = 1.
C15_ParamsAsStated ==
  pg.pc = "returned"
  => /\ (pg.p - 1) % pg.q = 0
     /\ IsPrimeCanAccept(pg.p)
     /\ IsPrimeCanAccept(pg.q)
     /\ PowerModSq(pg.g, pg.q, pg.p) = 1

\* C15: every returned (p, q, g) has q dividing p - 1 and p and q accepted
\* by isPrime; g^q mod p = 1 whenever p is a prime.
C15_ParamsDivisibility ==
  pg.pc = "returned"
  => /\ (pg.p - 1) % pg.q = 0
     /\ IsPrimeCanAccept(pg.p)
     /\ IsPrimeCanAccept(pg.q)
     /\ TrialPrime(pg.p) => PowerModSq(pg.g, pg.q, pg.p) = 1

\* parameters returned on the fallback path, with a prime p
C15_Witness ==
  /\ pg.pc = "returned"
  /\ pg.exhausted
  /\ TrialPrime(pg.p)
  /\ pg.g > 1

C17_ExternalNonceValidated ==
  (/\ sg.pc # "idle"
   /\ ~sg.useRandomK
   /\ sg.fixedK # Null
   /\ ~(0 < sg.fixedK[1] /\ sg.fixedK[1] < sg.params.q))
  => (sg.pc # "returned" /\ sg.iters = 0)

\* C18: DSS.verify returns a VerificationResult for every message, signature,
\* parameters and public key; it never raises.
C18_VerifyNeverErrors ==
  vr.called => ~vr.result.thrown

\* C19: given two signatures with r1 = r2 and s1 = s2 (here with r and s in
\* (0, q) and different messages), the recovery returns privateKey = null
\* and k = null.
C19_EqualSFails ==
  (/\ rc.called
   /\ rc.signature1.r = rc.signature2.r
   /\ rc.signature1.s = rc.signature2.s
   /\ 0 < rc.signature1.r /\ rc.signature1.r < rc.params.q
   /\ 0 < rc.signature1.s /\ rc.signature1.s < rc.params.q
   /\ rc.message1 # rc.message2)
  => (rc.result.privateKey = Null /\ rc.result.k = Null)

\* C20: given two signatures with r1 # r2, the recovery returns
\* privateKey = null and k = null and evaluates no digest and no inverse.
C20_DifferentRNegative ==
  (rc.called /\ rc.signature1.r # rc.signature2.r)
  => /\ rc.result.privateKey = Null
     /\ rc.result.k = Null
     /\ rc.result.calls = <<>>
     /\ rc.result.hash1 = Null
     /\ rc.result.hash2 = Null

\* a recovery refused for r1 # r2 although the two s values differ and both
\* messages have a digest
C20_Witness ==
  /\ rc.called
  /\ rc.signature1.r # rc.signature2.r
  /\ rc.signature1.s # rc.signature2.s
  /\ rc.signature1.r > 0
  /\ rc.signature2.r > 0
  /\ rc.message1 # <<>>
  /\ rc.message2 # <<>>
  /\ rc.message1 # rc.message2
  /\ rc.result.privateKey = Null

\* the toy scenario p = 23, q = 11, g = 4 with the private key 5 drawn
ToyKeyPair ==
  /\ kg.called
  /\ kg.params = [p |-> 23, q |-> 11, g |-> 4]
  /\ kg.result.privateKey = Some(5)

\* C21 as stated: with p = 23, q = 11, g = 4 and private key 5 the public key
\* computed, modPow(4, 5, 23), is 9.
C21_ToyPublicKeyAsStated ==
  ToyKeyPair => kg.result.publicKey = Some(9)

\* C21: with p = 23, q = 11, g = 4 and private key 5 the public key computed,
\* modPow(4, 5, 23), is 4^5 mod 23 = 12.
C21_ToyPublicKey ==
  ToyKeyPair
  => /\ kg.result.publicKey = Some(12)
     /\ kg.result.publicKey = Some((4 * 4 * 4 * 4 * 4) % 23)

\* generateKeyPair has returned in the toy scenario
C21_Witness ==
  /\ ToyKeyPair
  /\ ~kg.result.thrown
  /\ kg.result.publicKey # Null

\* C22: every call of DSS.sign in random-nonce mode leaves its retry loop,
\* with a signature or with a failure.
C22_SignTerminates ==
  (sg.pc = "loop" /\ sg.useRandomK) ~> (sg.pc # "loop")

\* the string has a character that is neither a digit nor a space
NotANumber(str) ==
  \E i \in 1 .. Len(str) : str[i] \notin (48 .. 57) \cup {32}

\* C23: a submission in which a string used for r, s or the nonce k is
\* non-numeric or negative is rejected before DSS.sign or DSS.verify is
\* called, so before any modPow or modInverse.
C23_MarshallingRejects ==
  (/\ ui.pc = "done"
   /\ ~ui.useRandomK
   /\ \E i \in 1 .. Len(ui.inputs) : NotANumber(ui.inputs[i]))
  => (ui.outcome = "rejected" /\ ui.callee = "" /\ ui.calls = <<>>)

\* C24: DSS.verify of a signature returned by DSS.sign against a message
\* other than the signed one reports isValid = false.
C24_OtherMessageInvalid ==
  (vr.called /\ vr.origin = "other-message")
  => (~vr.result.thrown /\ ~vr.result.isValid)

\* C25: DSS.verify of the signed message against a pair other than the
\* signature returned by DSS.sign reports isValid = false; so do the two
\* tampered test cases (r + 1, s) and (r, s + 1) of
\* demonstrateInvalidSignature.
C25_OtherSignatureInvalid ==
  /\ (vr.called /\ vr.origin = "other-signature")
     => (~vr.result.thrown /\ ~vr.result.isValid)
  /\ (flow = "invalid-signatures" /\ ec.pc = "done")
     => /\ ~ec.testCases[5].verification.isValid
        /\ ~ec.testCases[6].verification.isValid

\* the number of binary digits of n > 0
RECURSIVE BinaryLength(_)
BinaryLength(n) == IF n < 2 THEN 1 ELSE 1 + BinaryLength(n \div 2)

\* C26: for bitLength >= 2, a value returned by generatePrime(bitLength) is
\* 2 or odd, has exactly bitLength binary digits and is accepted by isPrime,
\* and it is returned after a bounded number of candidates.
C26_GeneratePrimeSize ==
  (gp.pc = "returned" /\ gp.bitLength >= 2)
  => /\ gp.attempts <= GeneratePrimeMaxAttempts + 2
     /\ (gp.candidate = 2 \/ gp.candidate % 2 = 1)
     /\ BinaryLength(gp.candidate) = gp.bitLength
     /\ IsPrimeCanAccept(gp.candidate)

\* C27: for q > 2 the private keys generateKeyPair can return are the whole
\* interval [1, q - 1].
C27_PrivateKeyRange ==
  (kg.called /\ kg.params.q > 2)
  => { x \in 1 .. (kg.params.q - 1) :
         \E d \in KeyPairXChoices(kg.params) :
           generateKeyPair(kg.params, d).privateKey = Some(x) }
       = 1 .. (kg.params.q - 1)

\* C28: App holds no parameters and no key pair, or parameters (p, q, g) and
\* a key pair (x, y) with y = g^x mod p.
C28_SessionConsistent ==
  \/ (app.parameters = Null /\ app.keyPair = Null)
  \/ /\ app.parameters # Null
     /\ app.keyPair # Null
     /\ app.keyPair[1].publicKey =
          PowerModSq(app.parameters[1].g, app.keyPair[1].privateKey,
                     app.parameters[1].p)

\* App holds the pair of one run while another run, started before that one
\* finished, holds other parameters
C28_Witness ==
  /\ app.parameters # Null
  /\ app.keyPair # Null
  /\ \E i \in 1 .. Len(app.runs) :
       /\ app.runs[i].pc = "await2"
       /\ app.runs[i].params # app.parameters

====
